---- MODULE Spec2Model ----
(***************************************************************************)
(* Model of the administrative handlers of app/routes/admin.py: the        *)
(* attendance write paths (batch save, manual mark, manual edit, delete,   *)
(* bulk mark), the leave approve/reject transitions and payroll creation.  *)
(*                                                                         *)
(* Every request runs in its own database session.  A handler first reads  *)
(* the committed store and stages its writes in the session (the action    *)
(* named after the handler); db.session.commit() then applies the staged   *)
(* writes in one transaction (Commit), or the transaction fails and is     *)
(* rolled back (StorageFailure, or a constraint/stale-row error inside     *)
(* Commit).  Two request slots let two handlers interleave between their   *)
(* reads and their commit.                                                 *)
(***************************************************************************)
EXTENDS Integers, Sequences, FiniteSets, TLC

\* ------------------------------------------------------------------ bounds
\* Calendar days of the modelled month are 1..MaxDate.
MaxDate == 2
\* Number of requests issued in one behaviour.
MaxOps == 2

\* ------------------------------------------------------------- value sets
Employees == {1, 2}
Dates == 1..MaxDate
Requests == {"r1", "r2"}
Statuses == {"Present", "Absent", "Half-day", "Leave"}
LeaveIds == {1}
None == "None"

\* The administrators; current_user.id of a request is one of them.
Admins == {"admin1", "admin2"}

\* str.strip() on the request texts the model draws.
Strip(s) ==
  CASE s = "  " -> ""
    [] s = " late " -> "late"
    [] s = " no cover " -> "no cover"
    [] s = " Eng " -> "Eng"
    [] s = " ok " -> "ok"
    [] OTHER -> s

\* datetime.strptime(s, '%Y-%m-%d').date(): a date text is <<year-month, day>>;
\* <<>> is the missing/empty text.  Only texts of the form 2024-06-DD with a
\* day of June parse; the result is the day number.
DateParses(s) == Len(s) = 2 /\ s[1] = "2024-06" /\ s[2] \in 1..30
ParseDate(s) == s[2]
DateStr(d) == <<"2024-06", d>>
BadDateStr == <<"06/2024", 1>>

\* datetime.strptime(s, '%H:%M').time(): one- or two-digit fields parse to the
\* same time; anything else raises ValueError.
TimeParses(s) == s \in {"09:00", "9:00", "17:00"}
ParseTime(s) ==
  CASE s = "09:00" -> "09:00:00"
    [] s = "9:00" -> "09:00:00"
    [] s = "17:00" -> "17:00:00"
    [] OTHER -> "ValueError"

VARIABLES
  employees,     \* Employee table: id -> row (with the role of its User)
  attendance,    \* Attendance table: a set of rows, each with its own id
  next_att_id,   \* next primary key of the Attendance table
  leave,         \* LeaveRequest table: id -> row
  notifications, \* Notification table, in insertion order
  payroll,       \* Payroll table: a set of rows
  pre_registered, \* PreRegisteredEmployee table: a set of rows
  sess,          \* per request slot: the handler's session (staged writes)
  resp,          \* per request slot: the outcome of its last request
  ops            \* requests issued so far; also the clock read by utcnow()

vars == <<employees, attendance, next_att_id, leave, notifications, payroll,
          pre_registered, sess, resp, ops>>

\* --------------------------------------------------------------- sessions
Idle == [pc |-> "idle", op |-> "none", ins |-> <<>>, upd |-> {}, del |-> {},
         lv |-> {}, notes |-> <<>>, pay |-> <<>>, pay_upd |-> {}, emp |-> {},
         pre_del |-> {}, saved |-> 0, updated |-> 0, args |-> <<>>]

NoResp == [op |-> "none", kind |-> "none", exc |-> "none", saved |-> 0,
           updated |-> 0, args |-> <<>>]

\* kind: ok, refused (warning), invalid (validation message), notfound (404)
\* or error (an exception, named in exc, reached the caller).  args is the
\* form a completed bulk mark was sent with.
Resp(op, kind, exc) ==
  [op |-> op, kind |-> kind, exc |-> exc, saved |-> 0, updated |-> 0,
   args |-> <<>>]

utcnow == ops + 1

\* A request is served on the first idle slot, while requests remain.
CanStart(r) ==
  /\ sess[r].pc = "idle"
  /\ ops < MaxOps
  /\ r = "r1" \/ sess["r1"].pc # "idle"

\* The handler returned without staging anything (a redirect or a 4xx).
Return(r, op, kind) ==
  /\ sess' = [sess EXCEPT ![r] = Idle]
  /\ resp' = [resp EXCEPT ![r] = Resp(op, kind, "none")]
  /\ ops' = ops + 1
  /\ UNCHANGED <<employees, attendance, next_att_id, leave, notifications,
                 payroll, pre_registered>>

\* The handler raised before its commit: the except clause rolls the session
\* back (or the failed request's session is discarded) and reports the error.
Raise(r, op, exc) ==
  /\ sess' = [sess EXCEPT ![r] = Idle]
  /\ resp' = [resp EXCEPT ![r] = Resp(op, "error", exc)]
  /\ ops' = ops + 1
  /\ UNCHANGED <<employees, attendance, next_att_id, leave, notifications,
                 payroll, pre_registered>>

\* The handler reached db.session.commit() with the writes of s staged.
Stage(r, s) ==
  /\ sess' = [sess EXCEPT ![r] = [s EXCEPT !.pc = "commit"]]
  /\ ops' = ops + 1
  /\ UNCHANGED <<employees, attendance, next_att_id, leave, notifications,
                 payroll, pre_registered, resp>>

\* ------------------------------------------------------- Attendance rows
AttCols == {"employee_id", "date", "status", "check_in", "check_out", "remarks",
            "updated_at"}

\* Attendance(...): no handler assigns updated_at to a record it creates; 0
\* stands for the value the column starts with, before any stamp.
NewAttendance(e, d, st, ci, co, rm) ==
  [id |-> 0, employee_id |-> e, date |-> d, status |-> st,
   check_in |-> ci, check_out |-> co, remarks |-> rm, updated_at |-> 0]

\* An UPDATE of row id: the columns the handler assigned a different value
\* from the one it loaded (the ORM writes only those).
Changed(old, new) == {c \in AttCols : old[c] # new[c]}
Update(old, new) == [id |-> old.id, vals |-> new, cols |-> Changed(old, new)]

MinId(rows) == CHOOSE x \in rows : \A y \in rows : x.id <= y.id

\* Attendance.query.filter_by(employee_id=e, date=d).first() on the committed
\* table: None, or the matching row (the lowest id if several match).
Matching(e, d) == {a \in attendance : a.employee_id = e /\ a.date = d}
Found(e, d) == Matching(e, d) # {}
First(e, d) == MinId(Matching(e, d))

\* Attendance.query.get_or_404(id)
HasRow(id) == \E a \in attendance : a.id = id
Row(id) == CHOOSE a \in attendance : a.id = id

AbsentLike(st) == st \in {"Absent", "Leave"}

\* ------------------------------------------------------- mark_attendance
mark_attendance(r, employee_id, date_str, status, remarks_in) ==
  /\ CanStart(r)
  /\ LET remarks == Strip(remarks_in) IN
     IF employee_id = 0 \/ date_str = <<>> \/ status = ""
     THEN Return(r, "mark", "invalid")
     ELSE IF ~DateParses(date_str)
     THEN Return(r, "mark", "invalid")
     ELSE LET d == ParseDate(date_str) IN
          IF Found(employee_id, d)
          THEN LET old == First(employee_id, d)
                   new == [old EXCEPT !.status = status, !.remarks = remarks,
                                      !.updated_at = utcnow]
               IN Stage(r, [Idle EXCEPT !.op = "mark",
                                        !.upd = {Update(old, new)}])
          ELSE Stage(r, [Idle EXCEPT
                 !.op = "mark",
                 !.ins = <<NewAttendance(employee_id, d, status, None, None, remarks)>>])

\* --------------------------------------------------- save_hr_attendance
\* A batch row: [employee_id, status, check_in, check_out, remarks], the
\* times as 'HH:MM' texts ("" when the key is absent or empty).
\* A loop that stores the supplied time whatever the status.
RowTimeAsSupplied(status, text) ==
  IF text # "" THEN ParseTime(text) ELSE None

RowTime(status, text) ==
  IF text # "" /\ ~AbsentLike(status) THEN ParseTime(text) ELSE None

\* A loop that never raises on a row's times.
RowNeverRaises(item) == FALSE

\* strptime raises ValueError on the row.
RowRaises(item) ==
  \/ item.check_in # "" /\ ~AbsentLike(item.status) /\ ~TimeParses(item.check_in)
  \/ item.check_out # "" /\ ~AbsentLike(item.status) /\ ~TimeParses(item.check_out)

\* The row the session holds for a committed row: as loaded, or as already
\* modified earlier in the same request.
Loaded(st, row) ==
  IF \E u \in st.upd : u.id = row.id
  THEN (CHOOSE u \in st.upd : u.id = row.id).vals
  ELSE row

\* A session whose queries do not see the rows it has added.
PendingUnseen(st, e, d) == {}

Pending(st, e, d) ==
  {i \in 1..Len(st.ins) : st.ins[i].employee_id = e /\ st.ins[i].date = d}

\* One iteration of the loop over attendance_list.  The query autoflushes, so
\* it also sees the rows this request has added.
SaveRow(st, item, d) ==
  LET e == item.employee_id
      remarks == Strip(item.remarks)
      ci == RowTime(item.status, item.check_in)
      co == RowTime(item.status, item.check_out)
  IN
  IF st.err THEN st
  ELSE IF RowRaises(item) THEN [st EXCEPT !.err = TRUE]
  ELSE IF Found(e, d)
  THEN LET row == First(e, d)
           new == [Loaded(st, row) EXCEPT !.status = item.status,
                     !.remarks = remarks, !.check_in = ci, !.check_out = co,
                     !.updated_at = utcnow]
       IN [st EXCEPT !.upd = {u \in st.upd : u.id # row.id} \cup {Update(row, new)},
                     !.updated = st.updated + 1]
  ELSE IF Pending(st, e, d) # {}
  THEN LET i == CHOOSE k \in Pending(st, e, d) : \A j \in Pending(st, e, d) : k <= j
       IN [st EXCEPT !.ins[i] = [st.ins[i] EXCEPT !.status = item.status,
                       !.remarks = remarks, !.check_in = ci, !.check_out = co,
                       !.updated_at = utcnow],
                     !.updated = st.updated + 1]
  ELSE [st EXCEPT !.ins = Append(st.ins,
                    NewAttendance(e, d, item.status, ci, co, remarks)),
                  !.saved = st.saved + 1]

\* A loop that counts a row repeating an employee of the same payload as an
\* update but leaves the record added for the earlier row as it was.
RECURSIVE SaveRowsKeepingFirst(_, _, _)
SaveRowsKeepingFirst(rows, d, st) ==
  IF rows = <<>> THEN st
  ELSE LET item == Head(rows) IN
       IF /\ ~st.err /\ ~RowRaises(item) /\ ~Found(item.employee_id, d)
          /\ Pending(st, item.employee_id, d) # {}
       THEN SaveRowsKeepingFirst(Tail(rows), d,
                                 [st EXCEPT !.updated = st.updated + 1])
       ELSE SaveRowsKeepingFirst(Tail(rows), d, SaveRow(st, item, d))

RECURSIVE SaveRows(_, _, _)
SaveRows(rows, d, st) ==
  IF rows = <<>> THEN st
  ELSE SaveRows(Tail(rows), d, SaveRow(st, Head(rows), d))

save_hr_attendance(r, date_str, rows) ==
  /\ CanStart(r)
  /\ IF date_str = <<>> \/ rows = <<>>
     THEN Return(r, "save", "invalid")
     ELSE IF ~DateParses(date_str)
     THEN Raise(r, "save", "ValueError")
     ELSE LET st == SaveRows(rows, ParseDate(date_str),
                     [ins |-> <<>>, upd |-> {}, saved |-> 0, updated |-> 0,
                      err |-> FALSE])
          IN IF st.err
             THEN Raise(r, "save", "ValueError")
             ELSE Stage(r, [Idle EXCEPT !.op = "save", !.ins = st.ins,
                              !.upd = st.upd, !.saved = st.saved,
                              !.updated = st.updated])

\* ------------------------------------------------------- edit_attendance
EditRaises(date_str, check_in, check_out) ==
  \/ ~DateParses(date_str)
  \/ check_in # "" /\ ~TimeParses(check_in)
  \/ check_out # "" /\ ~TimeParses(check_out)

edit_attendance(r, id, date_str, status, check_in, check_out, remarks_in) ==
  /\ CanStart(r)
  /\ IF ~HasRow(id)
     THEN Return(r, "edit", "notfound")
     ELSE IF EditRaises(date_str, check_in, check_out)
     THEN Raise(r, "edit", "ValueError")
     ELSE LET old == Row(id)
              new == [old EXCEPT
                        !.date = ParseDate(date_str),
                        !.status = status,
                        !.remarks = Strip(remarks_in),
                        !.check_in = IF check_in # "" THEN ParseTime(check_in) ELSE None,
                        !.check_out = IF check_out # "" THEN ParseTime(check_out) ELSE None,
                        !.updated_at = utcnow]
          IN Stage(r, [Idle EXCEPT !.op = "edit", !.upd = {Update(old, new)}])

\* ----------------------------------------------------- delete_attendance
delete_attendance(r, id) ==
  /\ CanStart(r)
  /\ IF ~HasRow(id)
     THEN Return(r, "delete", "notfound")
     ELSE Stage(r, [Idle EXCEPT !.op = "delete", !.del = {id}])

\* ---------------------------------------------------------- edit_employee
\* An UPDATE of employee e: the columns assigned a different value.
EmpUpdate(e, new) ==
  [id |-> e, vals |-> new,
   cols |-> {c \in DOMAIN new : employees[e][c] # new[c]}]

\* The date a date field of the form leaves on the record: the parsed date,
\* or the stored one when the text is missing or does not parse (the
\* ValueError is caught and passed over).
FormDate(text, stored) ==
  IF text # <<>> /\ DateParses(text) THEN ParseDate(text) ELSE stored

Roles == {"Admin", "HR", "Employee"}

\* form: [department, status, date_of_birth, date_of_joining, role]; the
\* name, phone, address, designation, employment type and gender texts are
\* assigned like department and are not carried by the model.
edit_employee(r, employee_id, form) ==
  /\ CanStart(r)
  /\ IF employee_id \notin DOMAIN employees
     THEN Return(r, "edit_employee", "notfound")
     ELSE LET old == employees[employee_id]
              new == [old EXCEPT
                        !.department = Strip(form.department),
                        !.status = form.status,
                        !.date_of_birth = FormDate(form.date_of_birth, old.date_of_birth),
                        !.date_of_joining = FormDate(form.date_of_joining, old.date_of_joining),
                        !.updated_at = utcnow,
                        !.role = IF form.role \in Roles THEN form.role ELSE old.role]
          IN Stage(r, [Idle EXCEPT !.op = "edit_employee",
                                   !.emp = {EmpUpdate(employee_id, new)}])

\* ---------------------------------------------------- deactivate_employee
deactivate_employee(r, employee_id) ==
  /\ CanStart(r)
  /\ IF employee_id \notin DOMAIN employees
     THEN Return(r, "deactivate", "notfound")
     ELSE LET new == [employees[employee_id] EXCEPT !.status = "Inactive",
                                                    !.is_active = FALSE]
          IN Stage(r, [Idle EXCEPT !.op = "deactivate",
                                   !.emp = {EmpUpdate(employee_id, new)}])

\* -------------------------------------------------- mark_bulk_attendance
\* A query that does not filter on the employee's status.
SelectedAnyStatus(department) ==
  {e \in Employees : department # "" => employees[e].department = department}

\* Employee.query.filter_by(status='Active')[.filter_by(department=...)].all()
Selected(department) ==
  {e \in Employees : /\ employees[e].status = "Active"
                     /\ (department # "" => employees[e].department = department)}

\* A bulk mark that applies no default times.
BulkRowNoDefaults(e, d, status) ==
  NewAttendance(e, d, status, None, None, "Bulk attendance marked by admin")

BulkRow(e, d, status) ==
  IF status = "Present"
  THEN NewAttendance(e, d, status, ParseTime("09:00"), ParseTime("17:00"),
                     "Bulk attendance marked by admin")
  ELSE NewAttendance(e, d, status, None, None, "Bulk attendance marked by admin")

\* The employees of a set in primary-key order.
RECURSIVE InOrder(_)
InOrder(S) ==
  IF S = {} THEN <<>>
  ELSE LET m == CHOOSE x \in S : \A y \in S : x <= y
       IN <<m>> \o InOrder(S \ {m})

\* A loop that adds a row for every selected employee, marked or not.
BulkInsertsAll(todo, d, status) ==
  LET es == InOrder(todo)
  IN [i \in 1..Len(es) |-> BulkRow(es[i], d, status)]

\* The rows the loop adds: one per selected employee without a row that day.
BulkInserts(todo, d, status) ==
  LET es == InOrder({e \in todo : ~Found(e, d)})
  IN [i \in 1..Len(es) |-> BulkRow(es[i], d, status)]

mark_bulk_attendance(r, date_str, status, department_in) ==
  /\ CanStart(r)
  /\ IF ~DateParses(date_str)
     THEN Raise(r, "bulk", "ValueError")
     ELSE LET rows == BulkInserts(Selected(Strip(department_in)),
                                  ParseDate(date_str), status)
          IN Stage(r, [Idle EXCEPT !.op = "bulk", !.ins = rows,
                                   !.saved = Len(rows),
                                   !.args = <<date_str, status, department_in>>])

\* ----------------------------------------------------------- Notification
\* A notification that names no employee.
NotificationUnaddressed(e, title, type) ==
  [employee_id |-> 0, title |-> title, type |-> type]

Notification(e, title, type) == [employee_id |-> e, title |-> title, type |-> type]

\* --------------------------------------------------------- approve_leave
\* f"Leave approved: {leave_request.leave_type}"
LeaveRemarks(leave_type) ==
  CASE leave_type = "Sick" -> "Leave approved: Sick"
    [] leave_type = "Paid" -> "Leave approved: Paid"
    [] OTHER -> "Leave approved: "

\* The dates the while loop visits: start_date, start_date + 1 day, ... while
\* current_date <= end_date.
\* A loop that walks the range from its earlier to its later end, whichever
\* way round the request gives them.
LeaveDaysEitherWay(current_date, end_date) ==
  IF current_date <= end_date
  THEN [i \in 1..(end_date - current_date + 1) |-> current_date + i - 1]
  ELSE [i \in 1..(current_date - end_date + 1) |-> end_date + i - 1]

RECURSIVE LeaveDaysExclusive(_, _)
LeaveDaysExclusive(current_date, end_date) ==
  IF current_date < end_date
  THEN <<current_date>> \o LeaveDaysExclusive(current_date + 1, end_date)
  ELSE <<>>

RECURSIVE LeaveDays(_, _)
LeaveDays(current_date, end_date) ==
  IF current_date <= end_date
  THEN <<current_date>> \o LeaveDays(current_date + 1, end_date)
  ELSE <<>>

\* One iteration of the loop: overwrite status and remarks of the day's row,
\* or add a Leave row.
LeaveDay(st, e, d, remarks) ==
  IF Found(e, d)
  THEN LET old == First(e, d)
           new == [old EXCEPT !.status = "Leave", !.remarks = remarks]
       IN IF Changed(old, new) = {} THEN st
          ELSE [st EXCEPT !.upd = st.upd \cup {Update(old, new)}]
  ELSE [st EXCEPT !.ins = Append(st.ins, NewAttendance(e, d, "Leave", None, None, remarks))]

RECURSIVE LeaveLoop(_, _, _, _)
LeaveLoop(st, e, days, remarks) ==
  IF days = <<>> THEN st
  ELSE LeaveLoop(LeaveDay(st, e, Head(days), remarks), e, Tail(days), remarks)

\* A transition that does not record who decided.
DecidedByNobody(lr, status, user, comment) ==
  [lr EXCEPT !.status = status, !.approved_at = utcnow,
             !.admin_comment = comment, !.updated_at = utcnow]

Decided(lr, status, user, comment) ==
  [lr EXCEPT !.status = status, !.approved_by = user, !.approved_at = utcnow,
             !.admin_comment = comment, !.updated_at = utcnow]

\* approve_leave without the check of the request's status.
approve_leave_unchecked(r, current_user, leave_id, comment_in) ==
  /\ CanStart(r)
  /\ LET lr == leave[leave_id]
         st == LeaveLoop([Idle EXCEPT !.op = "approve"], lr.employee_id,
                         LeaveDays(lr.start_date, lr.end_date),
                         LeaveRemarks(lr.leave_type))
     IN Stage(r, [st EXCEPT
          !.lv = {[id |-> leave_id,
                   vals |-> Decided(lr, "Approved", current_user, Strip(comment_in))]},
          !.notes = <<Notification(lr.employee_id, "Leave Request Approved", "success")>>])

\* approve_leave committing the status change before the attendance loop.
approve_leave_early_commit(r, current_user, leave_id, comment_in) ==
  /\ CanStart(r)
  /\ leave[leave_id].status = "Pending"
  /\ LET lr == leave[leave_id]
         st == LeaveLoop([Idle EXCEPT !.op = "approve"], lr.employee_id,
                         LeaveDays(lr.start_date, lr.end_date),
                         LeaveRemarks(lr.leave_type))
         done == Decided(lr, "Approved", current_user, Strip(comment_in))
     IN /\ leave' = [leave EXCEPT ![leave_id] = done]
        /\ sess' = [sess EXCEPT ![r] = [st EXCEPT
              !.pc = "commit",
              !.lv = {[id |-> leave_id, vals |-> done]},
              !.notes = <<Notification(lr.employee_id, "Leave Request Approved", "success")>>]]
        /\ ops' = ops + 1
        /\ UNCHANGED <<employees, attendance, next_att_id, notifications, payroll,
                       pre_registered, resp>>

approve_leave(r, current_user, leave_id, comment_in) ==
  /\ CanStart(r)
  /\ IF leave_id \notin DOMAIN leave
     THEN Return(r, "approve", "notfound")
     ELSE IF leave[leave_id].status # "Pending"
     THEN Return(r, "approve", "refused")
     ELSE LET lr == leave[leave_id]
              st == LeaveLoop([Idle EXCEPT !.op = "approve"], lr.employee_id,
                              LeaveDays(lr.start_date, lr.end_date),
                              LeaveRemarks(lr.leave_type))
          IN Stage(r, [st EXCEPT
               !.lv = {[id |-> leave_id,
                        vals |-> Decided(lr, "Approved", current_user, Strip(comment_in))]},
               !.notes = <<Notification(lr.employee_id, "Leave Request Approved", "success")>>])

\* ---------------------------------------------------------- reject_leave
\* reject_leave that also removes the employee's records of the range.
reject_leave_unmarking(r, current_user, leave_id, comment_in) ==
  /\ CanStart(r)
  /\ IF leave[leave_id].status # "Pending"
     THEN Return(r, "reject", "refused")
     ELSE IF Strip(comment_in) = ""
     THEN Return(r, "reject", "invalid")
     ELSE LET lr == leave[leave_id]
          IN Stage(r, [Idle EXCEPT
               !.op = "reject",
               !.del = {a.id : a \in {x \in attendance :
                           /\ x.employee_id = lr.employee_id
                           /\ x.date \in lr.start_date..lr.end_date}},
               !.lv = {[id |-> leave_id,
                        vals |-> Decided(lr, "Rejected", current_user, Strip(comment_in))]},
               !.notes = <<Notification(lr.employee_id, "Leave Request Rejected", "danger")>>])

\* reject_leave testing the comment as typed, not stripped.
reject_leave_unstripped(r, current_user, leave_id, comment_in) ==
  /\ CanStart(r)
  /\ IF leave[leave_id].status # "Pending"
     THEN Return(r, "reject", "refused")
     ELSE IF comment_in = ""
     THEN Return(r, "reject", "invalid")
     ELSE LET lr == leave[leave_id]
          IN Stage(r, [Idle EXCEPT
               !.op = "reject",
               !.lv = {[id |-> leave_id,
                        vals |-> Decided(lr, "Rejected", current_user, comment_in)]},
               !.notes = <<Notification(lr.employee_id, "Leave Request Rejected", "danger")>>])

reject_leave(r, current_user, leave_id, comment_in) ==
  /\ CanStart(r)
  /\ IF leave_id \notin DOMAIN leave
     THEN Return(r, "reject", "notfound")
     ELSE IF leave[leave_id].status # "Pending"
     THEN Return(r, "reject", "refused")
     ELSE IF Strip(comment_in) = ""
     THEN Return(r, "reject", "invalid")
     ELSE LET lr == leave[leave_id]
          IN Stage(r, [Idle EXCEPT
               !.op = "reject",
               !.lv = {[id |-> leave_id,
                        vals |-> Decided(lr, "Rejected", current_user, Strip(comment_in))]},
               !.notes = <<Notification(lr.employee_id, "Leave Request Rejected", "danger")>>])

\* -------------------------------------------------------- create_payroll
\* float(request.form.get(name, 0)) on the amount texts the model draws; a
\* text that is no number raises ValueError.
FloatParses(s) == s \in {"30000", "12000.0", "1500", "1500.00", "0"}
ParseFloat(s) ==
  CASE s = "30000" -> 30000
    [] s = "12000.0" -> 12000
    [] s = "1500" -> 1500
    [] s = "1500.00" -> 1500
    [] OTHER -> 0

PayCols == {"basic_salary", "hra", "da", "ta", "medical_allowance",
            "other_allowances", "pf", "tax", "insurance", "other_deductions"}

FormParses(form) == \A c \in PayCols : FloatParses(form[c])
\* Payroll.calculate_totals()
calculate_totals(p) ==
  LET gross == p.basic_salary + p.hra + p.da + p.ta + p.medical_allowance
               + p.other_allowances
      deductions == p.pf + p.tax + p.insurance + p.other_deductions
  IN [p EXCEPT !.gross_salary = gross, !.net_salary = gross - deductions]

NewPayroll(e, month, year, form) ==
  [id |-> 0, employee_id |-> e, month |-> month, year |-> year,
   basic_salary |-> ParseFloat(form.basic_salary), hra |-> ParseFloat(form.hra),
   da |-> ParseFloat(form.da), ta |-> ParseFloat(form.ta),
   medical_allowance |-> ParseFloat(form.medical_allowance),
   other_allowances |-> ParseFloat(form.other_allowances),
   pf |-> ParseFloat(form.pf), tax |-> ParseFloat(form.tax),
   insurance |-> ParseFloat(form.insurance),
   other_deductions |-> ParseFloat(form.other_deductions),
   gross_salary |-> 0, net_salary |-> 0, status |-> "Processed", updated_at |-> 0]

\* Payroll.query.filter_by(employee_id=e, month=m, year=y).first()
PayrollFound(e, m, y) ==
  \E p \in payroll : p.employee_id = e /\ p.month = m /\ p.year = y

\* create_payroll without the check for an existing record.
create_payroll_unchecked(r, employee_id, month, year, form) ==
  /\ CanStart(r)
  /\ IF ~FormParses(form)
     THEN Raise(r, "create_payroll", "ValueError")
     ELSE Stage(r, [Idle EXCEPT
            !.op = "create_payroll",
            !.pay = <<calculate_totals(NewPayroll(employee_id, month, year, form))>>,
            !.notes = <<Notification(employee_id, "Payroll Processed", "info")>>])

create_payroll(r, employee_id, month, year, form) ==
  /\ CanStart(r)
  /\ IF ~FormParses(form)
     THEN Raise(r, "create_payroll", "ValueError")
     ELSE IF PayrollFound(employee_id, month, year)
     THEN Return(r, "create_payroll", "refused")
     ELSE Stage(r, [Idle EXCEPT
            !.op = "create_payroll",
            !.pay = <<calculate_totals(NewPayroll(employee_id, month, year, form))>>,
            !.notes = <<Notification(employee_id, "Payroll Processed", "info")>>])

\* ---------------------------------------------------------- edit_payroll
\* Payroll.query.get_or_404(payroll_id)
HasPayroll(id) == \E p \in payroll : p.id = id
PayrollRow(id) == CHOOSE p \in payroll : p.id = id

\* An edit that also moves the record to the following month.
PayUpdateRekeying(old, new) ==
  [id |-> old.id, vals |-> [new EXCEPT !.month = old.month + 1],
   cols |-> {c \in DOMAIN old : old[c] # new[c]} \cup {"month"}]

\* An UPDATE of a Payroll row: the columns assigned a different value.
PayUpdate(old, new) ==
  [id |-> old.id, vals |-> new, cols |-> {c \in DOMAIN old : old[c] # new[c]}]

edit_payroll(r, payroll_id, form) ==
  /\ CanStart(r)
  /\ IF ~HasPayroll(payroll_id)
     THEN Return(r, "edit_payroll", "notfound")
     ELSE IF ~FormParses(form)
     THEN Raise(r, "edit_payroll", "ValueError")
     ELSE LET old == PayrollRow(payroll_id)
              set == [old EXCEPT
                        !.basic_salary = ParseFloat(form.basic_salary),
                        !.hra = ParseFloat(form.hra),
                        !.da = ParseFloat(form.da),
                        !.ta = ParseFloat(form.ta),
                        !.medical_allowance = ParseFloat(form.medical_allowance),
                        !.other_allowances = ParseFloat(form.other_allowances),
                        !.pf = ParseFloat(form.pf),
                        !.tax = ParseFloat(form.tax),
                        !.insurance = ParseFloat(form.insurance),
                        !.other_deductions = ParseFloat(form.other_deductions)]
              new == [calculate_totals(set) EXCEPT !.updated_at = utcnow]
          IN Stage(r, [Idle EXCEPT !.op = "edit_payroll",
                                   !.pay_upd = {PayUpdate(old, new)}])

\* ----------------------------------------- delete_pre_registered_employee
\* The handler without the test of is_registered.
delete_pre_registered_unchecked(r, id) ==
  /\ CanStart(r)
  /\ IF \A x \in pre_registered : x.id # id
     THEN Return(r, "delete_pre_registered", "notfound")
     ELSE Stage(r, [Idle EXCEPT !.op = "delete_pre_registered", !.pre_del = {id}])

delete_pre_registered_employee(r, id) ==
  /\ CanStart(r)
  /\ IF \A x \in pre_registered : x.id # id
     THEN Return(r, "delete_pre_registered", "notfound")
     ELSE IF (CHOOSE x \in pre_registered : x.id = id).is_registered
     THEN Return(r, "delete_pre_registered", "refused")
     ELSE Stage(r, [Idle EXCEPT !.op = "delete_pre_registered", !.pre_del = {id}])

\* -------------------------------------------------------- admin_required
\* The callers: the administrators, the user accounts of employees 1 and 2,
\* and a caller who is not logged in.
EmployeeOf == [user1 |-> 1, user2 |-> 2]
Users == Admins \cup DOMAIN EmployeeOf \cup {"anonymous"}

\* login_required: the caller has a session and the account is active.
is_authenticated(u) ==
  u \in Admins \/ (u \in DOMAIN EmployeeOf /\ employees[EmployeeOf[u]].is_active)

\* User.is_admin(): the account's role is Admin or HR.
is_admin(u) ==
  u \in Admins \/ (u \in DOMAIN EmployeeOf /\ employees[EmployeeOf[u]].role \in {"Admin", "HR"})

\* A decorator that lets every caller through.
admin_not_required(r, current_user, f) == f

\* The decorator of every handler: f runs only for an administrator.
admin_required(r, current_user, f) ==
  IF ~is_authenticated(current_user) \/ ~is_admin(current_user)
  THEN CanStart(r) /\ Return(r, "admin_required", "denied")
  ELSE f

\* ------------------------------------------------------------ the store
\* A store without the constraint accepts every write.
NoUniqueConstraint(rows, written) == FALSE

\* The unique constraint on Attendance (employee_id, date): the flush of a
\* transaction fails when a row it wrote shares its key with another row.
UniqueAttendanceViolated(rows, written) ==
  \E x \in rows : \E y \in rows :
     /\ x.id \in written
     /\ x.id # y.id
     /\ x.employee_id = y.employee_id
     /\ x.date = y.date

\* A Payroll table without the constraint accepts every write.
NoPayrollConstraint(rows, written) == FALSE

\* The unique constraint on Payroll (employee_id, month, year).
UniquePayrollViolated(rows, written) ==
  \E x \in rows : \E y \in rows :
     /\ x.id \in written
     /\ x.id # y.id
     /\ x.employee_id = y.employee_id
     /\ x.month = y.month
     /\ x.year = y.year

\* UPDATE ... WHERE id = u.id sets the changed columns of the committed row.
Updated(row, u) ==
  [c \in DOMAIN row |-> IF c \in u.cols THEN u.vals[c] ELSE row[c]]

UpdateOf(s, row) == CHOOSE u \in s.upd : u.id = row.id

\* The Attendance table after the staged writes of session s.
AttendanceAfter(s) ==
  {IF \E u \in s.upd : u.id = a.id THEN Updated(a, UpdateOf(s, a)) ELSE a :
       a \in {x \in attendance : x.id \notin s.del}}
  \cup {[s.ins[i] EXCEPT !.id = next_att_id + i - 1] : i \in 1..Len(s.ins)}

AttendanceWritten(s) ==
  {u.id : u \in s.upd} \cup {next_att_id + i - 1 : i \in 1..Len(s.ins)}

MaxPayrollId == IF payroll = {} THEN 0
                ELSE CHOOSE n \in {p.id : p \in payroll} : \A p \in payroll : p.id <= n

PayrollAfter(s) ==
  {IF \E u \in s.pay_upd : u.id = p.id
   THEN Updated(p, CHOOSE u \in s.pay_upd : u.id = p.id) ELSE p : p \in payroll}
  \cup {[s.pay[i] EXCEPT !.id = MaxPayrollId + i] : i \in 1..Len(s.pay)}

PayrollWritten(s) ==
  {u.id : u \in s.pay_upd} \cup {MaxPayrollId + i : i \in 1..Len(s.pay)}

\* The Employee table after the staged writes of session s.
EmployeesAfter(s) ==
  [e \in DOMAIN employees |->
     IF \E u \in s.emp : u.id = e
     THEN Updated(employees[e], CHOOSE u \in s.emp : u.id = e)
     ELSE employees[e]]

PreRegisteredAfter(s) == {x \in pre_registered : x.id \notin s.pre_del}

LeaveAfter(s) ==
  [l \in DOMAIN leave |->
     IF \E u \in s.lv : u.id = l THEN (CHOOSE u \in s.lv : u.id = l).vals
     ELSE leave[l]]

\* An UPDATE or DELETE of a row that is no longer there matches no row
\* (StaleDataError).
StaleRow(s) ==
  \/ \E id \in {u.id : u \in s.upd} \cup s.del : ~HasRow(id)
  \/ \E id \in {u.id : u \in s.pay_upd} : \A p \in payroll : p.id # id
  \/ \E id \in s.pre_del : \A x \in pre_registered : x.id # id

IntegrityError(s) ==
  \/ UniqueAttendanceViolated(AttendanceAfter(s), AttendanceWritten(s))
  \/ UniquePayrollViolated(PayrollAfter(s), PayrollWritten(s))

\* The flush of the staged writes raises.
CommitRaises(s) == StaleRow(s) \/ IntegrityError(s)

\* A store without transactions: the rows inserted before the failure stay.
RollbackKeepsInserts(r, exc) ==
  /\ sess' = [sess EXCEPT ![r] = Idle]
  /\ resp' = [resp EXCEPT ![r] = Resp(sess[r].op, "error", exc)]
  /\ attendance' = attendance \cup
        {[sess[r].ins[i] EXCEPT !.id = next_att_id + i - 1] :
            i \in 1..(Len(sess[r].ins) - 1)}
  /\ next_att_id' = next_att_id + Len(sess[r].ins)
  /\ UNCHANGED <<employees, leave, notifications, payroll, pre_registered, ops>>

\* db.session.rollback(), or the session discarded with the failed request:
\* nothing staged reaches the tables.
Rollback(r, exc) ==
  /\ sess' = [sess EXCEPT ![r] = Idle]
  /\ resp' = [resp EXCEPT ![r] = Resp(sess[r].op, "error", exc)]
  /\ UNCHANGED <<employees, attendance, next_att_id, leave, notifications,
                 payroll, pre_registered, ops>>

\* The staged writes become visible together.
Persist(r) ==
  LET s == sess[r] IN
  /\ attendance' = AttendanceAfter(s)
  /\ next_att_id' = next_att_id + Len(s.ins)
  /\ leave' = LeaveAfter(s)
  /\ notifications' = notifications \o s.notes
  /\ payroll' = PayrollAfter(s)
  /\ employees' = EmployeesAfter(s)
  /\ pre_registered' = PreRegisteredAfter(s)
  /\ sess' = [sess EXCEPT ![r] = Idle]
  /\ resp' = [resp EXCEPT ![r] = [op |-> s.op, kind |-> "ok", exc |-> "none",
                                   saved |-> s.saved, updated |-> s.updated,
                                   args |-> s.args]]
  /\ UNCHANGED ops

\* db.session.commit()
Commit(r) ==
  /\ sess[r].pc = "commit"
  /\ IF StaleRow(sess[r]) THEN Rollback(r, "StaleDataError")
     ELSE IF IntegrityError(sess[r]) THEN Rollback(r, "IntegrityError")
     ELSE Persist(r)

\* The store fails while the request is writing (storage unavailable on a
\* flush or on commit).
StorageFailure(r) ==
  /\ sess[r].pc = "commit"
  /\ Rollback(r, "OperationalError")

\* ------------------------------------------------------------- initial
EmployeeTable ==
  [e \in Employees |-> [department |-> IF e = 1 THEN "Eng" ELSE "Ops",
                        status |-> "Active", is_active |-> TRUE,
                        role |-> "Employee", date_of_birth |-> 1,
                        date_of_joining |-> 1, updated_at |-> 0]]

\* One entry consumed by a sign-up, one not yet.
PreRegisteredTable ==
  {[id |-> 1, is_registered |-> TRUE], [id |-> 2, is_registered |-> FALSE]}

PendingLeave(e, s, t) ==
  [employee_id |-> e, leave_type |-> "Sick", start_date |-> s, end_date |-> t,
   status |-> "Pending", approved_by |-> None, approved_at |-> 0,
   admin_comment |-> None, updated_at |-> 0]

\* The Attendance tables a behaviour may start from: the empty table, or the
\* table after a bulk mark of the Eng department on day 1 and a manual mark of
\* employee 1 on day 2.
SeedTables ==
  {{},
   {[id |-> 1, employee_id |-> 1, date |-> 1, status |-> "Present",
     check_in |-> "09:00:00", check_out |-> "17:00:00",
     remarks |-> "Bulk attendance marked by admin", updated_at |-> 0],
    [id |-> 2, employee_id |-> 1, date |-> 2, status |-> "Half-day",
     check_in |-> None, check_out |-> None, remarks |-> "late",
     updated_at |-> 0]}}

InitWith(leaves) ==
  /\ employees = EmployeeTable
  /\ attendance \in SeedTables
  /\ next_att_id = Cardinality(attendance) + 1
  /\ leave \in leaves
  /\ notifications = <<>>
  /\ payroll = {}
  /\ pre_registered = PreRegisteredTable
  /\ sess = [r \in Requests |-> Idle]
  /\ resp = [r \in Requests |-> NoResp]
  /\ ops = 0


\* ------------------------------------------------------ request inputs
DateStrs == {DateStr(d) : d \in Dates}
Item(e, status, check_in, check_out) ==
  [employee_id |-> e, status |-> status, check_in |-> check_in,
   check_out |-> check_out, remarks |-> " late "]
AttendanceIds == 1..(next_att_id - 1)

Finish ==
  \E r \in Requests : Commit(r) \/ StorageFailure(r)

\* ------------------------------------------- the attendance write paths
\* One leave request of employee 1 over the whole modelled month.
Init == InitWith({[l \in LeaveIds |-> PendingLeave(1, 1, MaxDate)]})

Batches ==
  {<<Item(1, "Present", "09:00", "17:00")>>,
   <<Item(1, "Absent", "", ""), Item(2, "Half-day", "9:00", "")>>}

Next ==
  \/ \E r \in Requests, e \in Employees, d \in DateStrs \cup {BadDateStr, <<>>},
        st \in {"Present", "Absent"} : mark_attendance(r, e, d, st, " late ")
  \/ \E r \in Requests, id \in AttendanceIds, d \in DateStrs :
        edit_attendance(r, id, d, "Present", "9:00", "17:00", "")
  \/ \E r \in Requests, id \in AttendanceIds : delete_attendance(r, id)
  \/ \E r \in Requests, d \in DateStrs \cup {BadDateStr}, dept \in {"", " Eng "} :
        mark_bulk_attendance(r, d, "Present", dept)
  \/ \E r \in Requests, d \in DateStrs, rows \in Batches :
        save_hr_attendance(r, d, rows)
  \/ \E r \in Requests, u \in Admins, l \in LeaveIds : approve_leave(r, u, l, "")
  \/ Finish

Spec == Init /\ [][Next]_vars

\* ------------------------------------------------ the leave transitions
\* One pending leave request of employee 1 over any range of the month,
\* start after end included.
InitLeave ==
  InitWith({[l \in LeaveIds |-> PendingLeave(1, s, t)] : s \in Dates, t \in Dates})

NextLeave ==
  \/ \E r \in Requests : mark_attendance(r, 1, DateStr(1), "Half-day", " late ")
  \/ \E r \in Requests : mark_bulk_attendance(r, DateStr(MaxDate), "Present", "")
  \/ \E r \in Requests, id \in AttendanceIds, d \in DateStrs :
        edit_attendance(r, id, d, "Present", "", "", "")
  \/ \E r \in Requests, u \in Admins, l \in LeaveIds, c \in {"", " ok "} :
        approve_leave(r, u, l, c)
  \/ \E r \in Requests, l \in LeaveIds, c \in {"", "  ", " no cover "} :
        reject_leave(r, "admin2", l, c)
  \/ Finish

SpecLeave == InitLeave /\ [][NextLeave]_vars

\* ------------------------------------------------------ the batch save
Sheet ==
  {Item(1, "Present", "09:00", "17:00"),
   Item(1, "Absent", "9am", "5pm"),
   Item(1, "Half-day", "9:00", ""),
   Item(2, "Half-day", "9:00", "5pm"),
   Item(2, "Present", "9am", ""),
   [Item(2, "Leave", "09:00", "17:00") EXCEPT !.remarks = "  "]}

Sheets == {<<i>> : i \in Sheet} \cup {<<i, j>> : i \in Sheet, j \in Sheet}

NextBatch ==
  \/ \E r \in Requests : mark_bulk_attendance(r, DateStr(1), "Present", "")
  \/ \E r \in Requests, rows \in Sheets : save_hr_attendance(r, DateStr(1), rows)
  \/ Finish

SpecBatch == Init /\ [][NextBatch]_vars

\* ------------------------------------------------------------- payroll
Form(basic, hra, pf, tax) ==
  [basic_salary |-> basic, hra |-> hra, da |-> "0", ta |-> "0",
   medical_allowance |-> "1500", other_allowances |-> "0", pf |-> pf,
   tax |-> tax, insurance |-> "0", other_deductions |-> "0"]

PayForms ==
  {Form("30000", "12000.0", "1500", "1500.00"),
   Form("12000.0", "0", "1500.00", "0"),
   Form("30000", "twelve", "0", "0")}

Months == {6, 7}
Years == {2024}

NextPay ==
  \/ \E r \in Requests, e \in Employees, m \in Months, y \in Years, f \in PayForms :
        create_payroll(r, e, m, y, f)
  \/ Finish

SpecPay == Init /\ [][NextPay]_vars

\* ------------------------------------------------------- the bulk mark
\* The department texts of a bulk mark, as typed: none, Eng, Ops, and a
\* department without employees.
Departments == {"", " Eng ", "Ops", "HR"}

NextBulk ==
  \/ \E r \in Requests, e \in Employees : deactivate_employee(r, e)
  \/ \E r \in Requests, d \in DateStrs, st \in {"Present", "Absent"},
        dept \in Departments : mark_bulk_attendance(r, d, st, dept)
  \/ Finish

SpecBulk == Init /\ [][NextBulk]_vars

\* ------------------------------------------------------- payroll edits
\* The forms of an edit: the stored amounts, a changed basic salary, a
\* changed HRA, and a text that is no number.
EditForms ==
  {Form("30000", "12000.0", "1500", "1500.00"),
   Form("12000.0", "12000.0", "1500", "1500.00"),
   Form("30000", "0", "1500", "1500.00"),
   Form("30000", "twelve", "1500", "1500.00")}

\* The Payroll table a behaviour may start from: empty, or after the create
\* of employee 1's record for June 2024.
SeedPayroll ==
  {{}, {[calculate_totals(NewPayroll(1, 6, 2024,
            Form("30000", "12000.0", "1500", "1500.00"))) EXCEPT !.id = 1]}}

InitPayEdit ==
  /\ employees = EmployeeTable
  /\ attendance = {}
  /\ next_att_id = 1
  /\ leave = [l \in LeaveIds |-> PendingLeave(1, 1, MaxDate)]
  /\ payroll \in SeedPayroll
  /\ notifications = [i \in 1..Cardinality(payroll) |->
                        Notification(1, "Payroll Processed", "info")]
  /\ pre_registered = PreRegisteredTable
  /\ sess = [r \in Requests |-> Idle]
  /\ resp = [r \in Requests |-> NoResp]
  /\ ops = 0

NextPayEdit ==
  \/ \E r \in Requests, m \in Months, f \in PayForms :
        create_payroll(r, 1, m, 2024, f)
  \/ \E r \in Requests, id \in 1..2, f \in EditForms : edit_payroll(r, id, f)
  \/ Finish

SpecPayEdit == InitPayEdit /\ [][NextPayEdit]_vars

\* -------------------------------------------- the whole control surface
EmployeeForm(department, dob, doj, role) ==
  [department |-> department, status |-> "Active", date_of_birth |-> dob,
   date_of_joining |-> doj, role |-> role]

\* Employee edits: a move to another department with both dates given, one
\* with a birth date that does not parse, and a promotion to HR.
EmployeeForms ==
  {EmployeeForm(" Eng ", DateStr(2), DateStr(2), "Employee"),
   EmployeeForm(" Eng ", BadDateStr, <<>>, ""),
   EmployeeForm("Ops", <<>>, <<>>, "HR")}

\* Every handler behind its decorator, called by current_user.
Guarded(r, current_user) ==
  \/ \E d \in {DateStr(1), BadDateStr} :
        admin_required(r, current_user, mark_attendance(r, 2, d, "Absent", ""))
  \/ admin_required(r, current_user,
        save_hr_attendance(r, DateStr(1), <<Item(2, "Present", "09:00", "17:00")>>))
  \/ admin_required(r, current_user,
        edit_attendance(r, 1, DateStr(1), "Leave", "", "", ""))
  \/ admin_required(r, current_user, delete_attendance(r, 1))
  \/ \E d \in {DateStr(1), BadDateStr} :
        admin_required(r, current_user, mark_bulk_attendance(r, d, "Present", ""))
  \/ admin_required(r, current_user, approve_leave(r, current_user, 1, ""))
  \/ admin_required(r, current_user,
        reject_leave(r, current_user, 1, " no cover "))
  \/ admin_required(r, current_user,
        create_payroll(r, 2, 6, 2024, Form("30000", "0", "1500", "0")))
  \/ admin_required(r, current_user,
        edit_payroll(r, 1, Form("12000.0", "0", "1500", "0")))
  \/ \E form \in EmployeeForms :
        admin_required(r, current_user, edit_employee(r, 2, form))
  \/ admin_required(r, current_user, deactivate_employee(r, 2))
  \/ \E id \in 1..2 :
        admin_required(r, current_user, delete_pre_registered_employee(r, id))

Callers == {"admin1", "user2", "anonymous"}

NextAccess ==
  \/ \E r \in Requests, u \in Callers : Guarded(r, u)
  \/ Finish

SpecAccess == Init /\ [][NextAccess]_vars

\* ================================================================ claims

\* The key of a row a request has staged as new.
StagedKeys(r) ==
  {<<sess[r].ins[i].employee_id, sess[r].ins[i].date>> : i \in 1..Len(sess[r].ins)}

\* C1: in every reachable state of the attendance write paths there is at
\* most one Attendance row for each (employee, date) pair.
C1_OneAttendancePerKey ==
  \A a \in attendance : \A b \in attendance :
     (a.employee_id = b.employee_id /\ a.date = b.date) => a.id = b.id

\* C1 witness: a request is about to commit a write that would give a key a
\* second row (an edit that moves a row onto another row's date, or the
\* loser of a concurrent create), with rows already stored.
C1_Witness ==
  \E r \in Requests :
     /\ sess[r].pc = "commit"
     /\ attendance # {}
     /\ sess[r].op = "edit"
     /\ \E u \in sess[r].upd : "date" \in u.cols
     /\ \E a \in AttendanceAfter(sess[r]) : \E b \in AttendanceAfter(sess[r]) :
           a.id # b.id /\ a.employee_id = b.employee_id /\ a.date = b.date

\* C2 (as claimed): two requests never both take the "not found" branch for
\* the same (employee, date) key, and no key ends with two rows.
C2_NeverBothNotFound ==
  /\ \A r \in Requests : \A q \in Requests :
        r # q => StagedKeys(r) \cap StagedKeys(q) = {}
  /\ \A a \in attendance : \A b \in attendance :
        a.id # b.id => <<a.employee_id, a.date>> # <<b.employee_id, b.date>>

\* C6 (as claimed): every Attendance row whose status is Absent or Leave has
\* check-in and check-out unset.
C6_AbsentLeaveHaveNoTimes ==
  \A a \in attendance :
     a.status \in {"Absent", "Leave"} => a.check_in = None /\ a.check_out = None

\* ------------------------------------------------------- leave claims
Comments == {"", "  ", " ok ", " no cover "}
\* The comments that are empty or whitespace only.
BlankComments == {"", "  "}
Terminal == {"Approved", "Rejected"}

\* The request of slot r finishes in this step (its commit or its failure).
Finishes(r, op) ==
  sess[r].op = op /\ sess[r].pc = "commit" /\ sess'[r].pc = "idle"

\* The leave request a staged approval or rejection is about.
LeaveOf(r) == (CHOOSE u \in sess[r].lv : TRUE).id

\* C3 (as claimed): once a leave request is Approved or Rejected, no later or
\* interleaved approve or reject changes its status, approver, approval
\* timestamp or comment.
C3_TerminalLeaveImmutable ==
  [][\A l \in LeaveIds : leave[l].status \in Terminal => leave'[l] = leave[l]]_vars

\* C4: approve or reject called on a leave request that is not Pending
\* changes no field of it, no Attendance row and no Notification, and stages
\* no write.
C4_ProcessedLeaveUntouched ==
  [][\A r \in Requests, u \in Admins, l \in LeaveIds, c \in Comments :
       (/\ leave[l].status # "Pending"
        /\ approve_leave(r, u, l, c) \/ reject_leave(r, u, l, c))
       => /\ UNCHANGED <<leave, attendance, notifications>>
          /\ sess'[r] = Idle
          /\ resp'[r].kind = "refused"]_vars

\* C4 witness: a reject has been refused on a request that was already
\* Approved.
C4_Witness ==
  \E l \in LeaveIds : \E r \in Requests :
     /\ leave[l].status = "Approved"
     /\ resp[r].kind = "refused"
     /\ resp[r].op = "reject"

\* The staged writes of the approval in slot r are what its reads would
\* still give: no other request changed the rows of the range since.
ReadsCurrent(r) ==
  LET lr == leave[LeaveOf(r)]
      st == LeaveLoop([Idle EXCEPT !.op = "approve"], lr.employee_id,
                      LeaveDays(lr.start_date, lr.end_date),
                      LeaveRemarks(lr.leave_type))
  IN st.ins = sess[r].ins /\ st.upd = sess[r].upd

InRange(a, lr) ==
  a.employee_id = lr.employee_id /\ lr.start_date <= a.date /\ a.date <= lr.end_date

C7_RejectNeedsComment ==
  [][\A r \in Requests, u \in Admins, l \in LeaveIds, c \in BlankComments :
       (leave[l].status = "Pending" /\ reject_leave(r, u, l, c))
       => /\ UNCHANGED <<leave, attendance, notifications>>
          /\ sess'[r] = Idle
          /\ resp'[r].kind = "invalid"]_vars

\* C7 witness: a rejection was refused for its comment and the request is
\* still Pending.
C7_Witness ==
  \E r \in Requests : \E l \in LeaveIds :
     resp[r].op = "reject" /\ resp[r].kind = "invalid" /\ leave[l].status = "Pending"

\* Every write the session staged is in the tables after the step.
AllPersisted(s) ==
  /\ \A u \in s.lv : leave'[u.id] = u.vals
  /\ notifications' = notifications \o s.notes
  /\ Cardinality(attendance') = Cardinality(attendance) + Len(s.ins)
  /\ \A i \in 1..Len(s.ins) :
        \E a \in attendance' \ attendance :
           /\ a.employee_id = s.ins[i].employee_id /\ a.date = s.ins[i].date
           /\ a.status = s.ins[i].status
  /\ \A u \in s.upd :
        \E a \in attendance' : a.id = u.id /\ \A c \in u.cols : a[c] = u.vals[c]

NonePersisted == UNCHANGED <<leave, attendance, notifications>>

\* C8: leave approval is atomic.  The step that ends an approval persists
\* the status change, every day's row and the notification together or
\* nothing at all; the handler persists nothing before that step, and the
\* request becomes Approved in no other step.
C8_ApprovalAtomic ==
  [][/\ \A r \in Requests :
          Finishes(r, "approve") => AllPersisted(sess[r]) \/ NonePersisted
     /\ \A r \in Requests :
          (sess[r].pc = "idle" /\ sess'[r].op = "approve") => NonePersisted
     /\ \A l \in LeaveIds :
          (leave[l].status # "Approved" /\ leave'[l].status = "Approved")
          => \E r \in Requests : Finishes(r, "approve") /\ AllPersisted(sess[r])
    ]_vars

\* C8 witness: an approval over two or more days failed and rolled back; the
\* request is still Pending and no day of the range is marked Leave.
C8_Witness ==
  \E r \in Requests : \E l \in LeaveIds :
     /\ resp[r].op = "approve" /\ resp[r].kind = "error"
     /\ resp[r].exc = "OperationalError"
     /\ leave[l].status = "Pending"
     /\ leave[l].start_date < leave[l].end_date
     /\ \A a \in attendance : a.status # "Leave"

\* ------------------------------------------------------ batch claims
\* The row carries a check-in or check-out text that does not parse.
HasBadTime(item) ==
  \/ item.check_in # "" /\ ~TimeParses(item.check_in)
  \/ item.check_out # "" /\ ~TimeParses(item.check_out)

BatchFails(r) ==
  /\ sess'[r] = Idle
  /\ resp'[r].op = "save" /\ resp'[r].kind = "error"
  /\ resp'[r].exc = "ValueError"
  /\ UNCHANGED <<attendance, next_att_id>>

C10_SecondPayrollRefused ==
  [][\A r \in Requests, e \in Employees, m \in Months, y \in Years, f \in PayForms :
       (/\ create_payroll(r, e, m, y, f)
        /\ \A c \in PayCols : FloatParses(f[c])
        /\ \E p \in payroll : p.employee_id = e /\ p.month = m /\ p.year = y)
       => /\ sess'[r] = Idle
          /\ resp'[r].kind = "refused"
          /\ UNCHANGED <<payroll, notifications>>]_vars

\* C10 witness: a create was refused with the first record stored.
C10_Witness ==
  \E r \in Requests :
     /\ resp[r].op = "create_payroll" /\ resp[r].kind = "refused"
     /\ Cardinality(payroll) = 1
     /\ Len(notifications) = 1

\* C11: in every reachable state, those reached when two creates for the
\* same (employee, month, year) interleave between the existence check and
\* the commit included, at most one Payroll record exists per key.
C11_OnePayrollPerKey ==
  \A p \in payroll : \A q \in payroll :
     (p.employee_id = q.employee_id /\ p.month = q.month /\ p.year = q.year)
     => p = q

\* C11 witness: two creates for one key both passed the existence check; one
\* has committed and the other failed on the constraint.
C11_Witness ==
  \E r \in Requests : \E q \in Requests :
     /\ r # q
     /\ resp[r].op = "create_payroll" /\ resp[r].kind = "ok"
     /\ resp[q].op = "create_payroll" /\ resp[q].exc = "IntegrityError"
     /\ Cardinality(payroll) = 1
     /\ Len(notifications) = 1

\* ------------------------------------------------------- bulk claims
\* The department a typed department text selects ("" selects all).
DepartmentOf(text) ==
  CASE text = " Eng " -> "Eng" [] text = "Ops" -> "Ops" [] text = "HR" -> "HR"
    [] OTHER -> ""

\* The employees a bulk mark for day d and department dept is to create a
\* row for: Active, of the department, without a row that day.
Unmarked(d, dept) ==
  {e \in Employees :
     /\ employees[e].status = "Active"
     /\ dept = "" \/ employees[e].department = dept
     /\ \A a \in attendance : ~(a.employee_id = e /\ a.date = d)}

\* C12: a bulk mark for a date, status and department stages one new row for
\* each Active employee of the department without a row for that date and
\* nothing else, and its commit leaves every row that was stored unchanged.
C12_BulkCreatesOnlyMissing ==
  [][/\ \A r \in Requests, d \in Dates, st \in {"Present", "Absent"},
          dept \in Departments :
          mark_bulk_attendance(r, DateStr(d), st, dept)
          => LET s == sess'[r] IN
             /\ s.upd = {} /\ s.del = {} /\ s.emp = {} /\ s.lv = {}
             /\ Len(s.ins) = Cardinality(Unmarked(d, DepartmentOf(dept)))
             /\ \A e \in Unmarked(d, DepartmentOf(dept)) :
                   \E i \in 1..Len(s.ins) : s.ins[i].employee_id = e
             /\ \A i \in 1..Len(s.ins) :
                   /\ s.ins[i].employee_id \in Unmarked(d, DepartmentOf(dept))
                   /\ s.ins[i].date = d /\ s.ins[i].status = st
             /\ UNCHANGED <<attendance, employees>>
     /\ \A r \in Requests :
          Finishes(r, "bulk")
          => /\ attendance \subseteq attendance'
             /\ \A a \in attendance' \ attendance :
                   /\ \E i \in 1..Len(sess[r].ins) :
                         /\ sess[r].ins[i].employee_id = a.employee_id
                         /\ sess[r].ins[i].date = a.date
                   /\ \A b \in attendance :
                         ~(b.employee_id = a.employee_id /\ b.date = a.date)
    ]_vars

\* C12 witness: with employee 1 deactivated, a bulk mark of every department
\* as Absent on day 2 created the row of employee 2 only; employee 1 keeps
\* the Half-day row stored for that day.
C12_Witness ==
  \E r \in Requests :
     /\ resp[r].op = "bulk" /\ resp[r].kind = "ok" /\ resp[r].saved = 1
     /\ employees[1].status = "Inactive"
     /\ \E a \in attendance :
          a.employee_id = 1 /\ a.date = 2 /\ a.status = "Half-day"
     /\ \E a \in attendance :
          a.employee_id = 2 /\ a.date = 2 /\ a.status = "Absent"
     /\ Cardinality(attendance) = 3

\* The net salary the component fields of a record give.
NetOf(p) ==
  (p.basic_salary + p.hra + p.da + p.ta + p.medical_allowance + p.other_allowances)
  - (p.pf + p.tax + p.insurance + p.other_deductions)

\* C13 (as claimed): every stored Payroll record has net salary equal to the
\* sum of its six earning components minus the sum of its four deductions,
\* after its creation and after every edit.
C13_NetSalaryFromComponents ==
  \A p \in payroll : p.net_salary = NetOf(p)

\* ------------------------------------------------------ access claims
\* C14: an operation invoked by a caller who is not an administrator is
\* redirected without running the handler: nothing is staged and no
\* Employee, Attendance, LeaveRequest, Payroll, Notification or
\* PreRegisteredEmployee record is created, modified or deleted.
C14_NonAdminChangesNothing ==
  [][\A r \in Requests, u \in Users :
       (/\ ~(u \in Admins \/ (u \in {"user1", "user2"}
                               /\ employees[EmployeeOf[u]].role \in {"Admin", "HR"}))
        /\ Guarded(r, u))
       => /\ UNCHANGED <<employees, attendance, next_att_id, leave, payroll,
                         notifications, pre_registered>>
          /\ sess'[r] = Idle
          /\ resp'[r].kind = "denied"]_vars

\* C14 witness: a caller was turned away while another request, run for an
\* administrator, is waiting to commit its writes.
C14_Witness ==
  \E r \in Requests : \E q \in Requests :
     /\ resp[r].kind = "denied"
     /\ sess[q].pc = "commit" /\ sess[q].op = "edit_employee"

\* The text is given and is no date.
Unparsable(text) == text # <<>> /\ ~DateParses(text)

\* The request is refused with a message and has staged nothing.
Rejected(r) ==
  /\ sess'[r] = Idle
  /\ resp'[r].kind \in {"invalid", "error"}
  /\ UNCHANGED <<employees, attendance, next_att_id>>

\* C15 (as claimed): a manual mark, a bulk mark or an employee edit that
\* carries an unparsable date is refused with a message and stages no
\* write; the error is not passed over while the rest is committed.
C15_BadDateIsRefused ==
  [][\A r \in Requests :
       /\ mark_attendance(r, 2, BadDateStr, "Absent", "") => Rejected(r)
       /\ mark_bulk_attendance(r, BadDateStr, "Present", "") => Rejected(r)
       /\ \A form \in EmployeeForms :
             (/\ edit_employee(r, 2, form)
              /\ Unparsable(form.date_of_birth) \/ Unparsable(form.date_of_joining))
             => Rejected(r)]_vars

\* ------------------------------------------------- batch save counts
\* The rows of a payload for day d that overwrite a record: the employee has
\* a stored row that day, or an earlier row of the payload created one.
Overwrites(rows, d) ==
  {i \in 1..Len(rows) :
     \/ \E a \in attendance : a.employee_id = rows[i].employee_id /\ a.date = d
     \/ \E j \in 1..(i - 1) : rows[j].employee_id = rows[i].employee_id}

\* C16: a successful batch save returns saved = the number of rows that
\* created a record and updated = the number of rows that overwrote one;
\* saved + updated is the number of rows of the payload, and the Attendance
\* table grows by exactly saved.
C16_BatchCounts ==
  [][/\ \A r \in Requests, rows \in Sheets :
          (save_hr_attendance(r, DateStr(1), rows) /\ sess'[r].pc = "commit")
          => LET s == sess'[r] IN
             /\ s.updated = Cardinality(Overwrites(rows, 1))
             /\ s.saved = Len(rows) - Cardinality(Overwrites(rows, 1))
             /\ s.saved = Len(s.ins)
             /\ s.saved + s.updated = Len(rows)
     /\ \A r \in Requests :
          (Finishes(r, "save") /\ resp'[r].kind = "ok")
          => /\ resp'[r].saved = sess[r].saved
             /\ resp'[r].updated = sess[r].updated
             /\ Cardinality(attendance') = Cardinality(attendance) + resp'[r].saved
    ]_vars

\* C16 witness: a batch of two rows succeeded, one row creating a record and
\* one overwriting a stored one.
C16_Witness ==
  \E r \in Requests :
     /\ resp[r].op = "save" /\ resp[r].kind = "ok"
     /\ resp[r].saved = 1 /\ resp[r].updated = 1
     /\ Cardinality(attendance) = 3

\* ------------------------------------------- multi-record write failures
MultiRecord == {"save", "bulk", "approve"}

\* C17: when the commit of a batch save, a bulk mark or a leave approval
\* hits a unique-constraint violation or another persistence failure, every
\* write of the operation is discarded and the caller receives an error; a
\* failing commit is never reported as a success and never stores a second
\* row for a key.
C17_FailedWriteDiscarded ==
  [][\A r \in Requests :
       (sess[r].op \in MultiRecord /\ Finishes(r, sess[r].op))
       => /\ resp'[r].kind = "error"
             => UNCHANGED <<attendance, next_att_id, leave, notifications,
                            payroll, employees, pre_registered>>
          /\ (\E a \in AttendanceAfter(sess[r]) : \E b \in AttendanceAfter(sess[r]) :
                 a.id # b.id /\ a.employee_id = b.employee_id /\ a.date = b.date)
             => resp'[r].kind = "error"
          /\ resp'[r].kind \in {"ok", "error"}
          /\ \A a \in attendance' : \A b \in attendance' :
                (a.employee_id = b.employee_id /\ a.date = b.date) => a.id = b.id
    ]_vars

\* C17 witness: a bulk mark lost a concurrent find-or-create against a
\* manual mark: its commit failed on the constraint, and the table holds the
\* manual mark's row only, not the row the bulk mark had added for the
\* other employee.
C17_Witness ==
  \E r \in Requests : \E q \in Requests :
     /\ r # q
     /\ resp[r].op = "bulk" /\ resp[r].exc = "IntegrityError"
     /\ resp[q].op = "mark" /\ resp[q].kind = "ok"
     /\ Cardinality(attendance) = 1

\* ------------------------------------------------ notification claims
Notifying == {"approve", "reject", "create_payroll"}

\* The employee a notifying request in slot r is about.
Affected(r) ==
  IF sess[r].op = "create_payroll" THEN sess[r].pay[1].employee_id
  ELSE leave[LeaveOf(r)].employee_id

\* A leave approval, leave rejection or payroll creation succeeds in this
\* step.
Succeeds(r) ==
  sess[r].op \in Notifying /\ Finishes(r, sess[r].op) /\ resp'[r].kind = "ok"

\* C18: notifications are append-only.  Each successful leave approval,
\* leave rejection and payroll creation adds exactly one Notification,
\* addressed to the affected employee; every other step leaves the table as
\* it is, so no stored Notification is ever modified or deleted.
C18_NotificationsAppendOnly ==
  [][/\ Len(notifications') >= Len(notifications)
     /\ \A i \in 1..Len(notifications) : notifications'[i] = notifications[i]
     /\ \A r \in Requests :
          Succeeds(r)
          => /\ Len(notifications') = Len(notifications) + 1
             /\ notifications'[Len(notifications')].employee_id = Affected(r)
     /\ (\A r \in Requests : ~Succeeds(r)) => notifications' = notifications
    ]_vars

\* C18 witness: a payroll creation for employee 2 and a leave decision for
\* employee 1 have both succeeded, each leaving its notification.
C18_Witness ==
  /\ Len(notifications) = 2
  /\ {notifications[i].employee_id : i \in 1..2} = {1, 2}
  /\ \E p \in payroll : p.employee_id = 2
  /\ leave[1].status \in {"Approved", "Rejected"}

\* ---------------------------------------------- pre-registration claims
\* C19: a PreRegisteredEmployee entry is deleted only while unconsumed.  A
\* delete request for an entry with is_registered set is refused and stages
\* nothing; a delete request for an unconsumed entry stages the removal of
\* that entry, and its successful commit removes exactly that entry; no
\* other step changes the table.
C19_DeleteOnlyUnconsumed ==
  [][/\ \A r \in Requests, id \in 1..2 :
          delete_pre_registered_employee(r, id)
          => /\ UNCHANGED pre_registered
             /\ \A x \in pre_registered :
                   x.id = id
                   => IF x.is_registered
                      THEN sess'[r] = Idle /\ resp'[r].kind = "refused"
                      ELSE sess'[r].pre_del = {id} /\ sess'[r].pc = "commit"
     /\ \A r \in Requests :
          (Finishes(r, "delete_pre_registered") /\ resp'[r].kind = "ok")
          => \E x \in pre_registered :
                /\ ~x.is_registered
                /\ sess[r].pre_del = {x.id}
                /\ pre_registered' = pre_registered \ {x}
     /\ pre_registered' # pre_registered
          => \E r \in Requests :
                Finishes(r, "delete_pre_registered") /\ resp'[r].kind = "ok"
    ]_vars

\* C19 witness: the delete of the consumed entry was refused and the delete
\* of the unconsumed entry went through; the consumed entry alone is left.
C19_Witness ==
  /\ \E r \in Requests :
        resp[r].op = "delete_pre_registered" /\ resp[r].kind = "refused"
  /\ \E r \in Requests :
        resp[r].op = "delete_pre_registered" /\ resp[r].kind = "ok"
  /\ pre_registered = {[id |-> 1, is_registered |-> TRUE]}

\* ---------------------------------------------- batch save, stored times
\* The time a supplied 'HH:MM' text stands for (unset when not supplied).
Supplied(text) ==
  CASE text = "" -> None
    [] text \in {"09:00", "9:00"} -> "09:00:00"
    [] text = "17:00" -> "17:00:00"
    [] OTHER -> "unparsable"

\* The last row of the payload for the employee of row i.
LastFor(rows, i) ==
  \A j \in (i + 1)..Len(rows) : rows[j].employee_id # rows[i].employee_id

\* The rows the batch save in slot r overwrites are still as it loaded them:
\* no other request has changed them since.
SaveReadsCurrent(r) ==
  \A u \in sess[r].upd :
     \E a \in attendance :
        a.id = u.id /\ \A c \in AttCols \ u.cols : a[c] = u.vals[c]

BulkTimes(a, st) ==
  IF st = "Present"
  THEN a.check_in = "09:00:00" /\ a.check_out = "17:00:00"
  ELSE a.check_in = None /\ a.check_out = None

\* C21: a bulk mark with status Present gives every record it creates
\* check-in 09:00 and check-out 17:00, and with any other status no times;
\* the count it reports is the number of records it created, which is the
\* number of selected Active employees that had no record for the date.
C21_BulkDefaultsAndCount ==
  [][/\ \A r \in Requests, d \in Dates, st \in {"Present", "Absent"},
          dept \in Departments :
          mark_bulk_attendance(r, DateStr(d), st, dept)
          => LET s == sess'[r] IN
             /\ \A i \in 1..Len(s.ins) :
                   s.ins[i].status = st /\ BulkTimes(s.ins[i], st)
             /\ s.saved = Len(s.ins)
             /\ s.saved = Cardinality(Unmarked(d, DepartmentOf(dept)))
     /\ \A r \in Requests :
          (Finishes(r, "bulk") /\ resp'[r].kind = "ok")
          => /\ resp'[r].saved = sess[r].saved
             /\ resp'[r].saved = Cardinality(attendance' \ attendance)
             /\ \A a \in attendance' \ attendance : BulkTimes(a, a.status)
    ]_vars

\* C21 witness: a bulk mark as Present reported 2 and both employees have a
\* record from 09:00 to 17:00 that day.
C21_Witness ==
  \E r \in Requests : \E d \in Dates :
     /\ resp[r].op = "bulk" /\ resp[r].kind = "ok" /\ resp[r].saved = 2
     /\ \A e \in Employees :
          \E a \in attendance :
             /\ a.employee_id = e /\ a.date = d /\ a.status = "Present"
             /\ a.check_in = "09:00:00" /\ a.check_out = "17:00:00"

\* ------------------------------------------------------ upsert claims
Stored(e, d) == \E a \in attendance : a.employee_id = e /\ a.date = d

\* The request started in slot r overwrites the stored record of (e, d): the
\* table it is about to commit has that one record for the key, with the
\* new status and remarks and the time of the request as modification time,
\* and the request adds no record for the key.
Overwritten(r, e, d, st, rm) ==
  /\ \A i \in 1..Len(sess'[r].ins) :
        ~(sess'[r].ins[i].employee_id = e /\ sess'[r].ins[i].date = d)
  /\ \A a \in AttendanceAfter(sess'[r]) :
        (a.employee_id = e /\ a.date = d)
        => /\ \E b \in attendance : b.id = a.id
           /\ a.status = st /\ a.remarks = rm
           /\ a.updated_at = ops + 1

\* C22 (as claimed): whenever a manual mark, a batch save or a leave
\* approval finds a stored record for (employee, date), it overwrites the
\* record's status and remarks, stamps its modification time and adds no
\* record.
C22_UpsertOverwritesAndStamps ==
  [][\A r \in Requests :
       /\ \A e \in Employees, d \in Dates, st \in {"Present", "Absent"} :
             (mark_attendance(r, e, DateStr(d), st, " late ") /\ Stored(e, d))
             => Overwritten(r, e, d, st, "late")
       /\ \A d \in Dates, rows \in Batches :
             save_hr_attendance(r, DateStr(d), rows)
             => \A i \in 1..Len(rows) :
                   Stored(rows[i].employee_id, d)
                   => Overwritten(r, rows[i].employee_id, d, rows[i].status, "late")
       /\ \A u \in Admins, l \in LeaveIds :
             (approve_leave(r, u, l, "") /\ leave[l].status = "Pending")
             => \A d \in leave[l].start_date..leave[l].end_date :
                   Stored(leave[l].employee_id, d)
                   => Overwritten(r, leave[l].employee_id, d, "Leave",
                                  "Leave approved: Sick")
    ]_vars

\* ------------------------------------------------- who decided and when
\* The comment texts without their surrounding blanks.
Trimmed(c) ==
  CASE c = " ok " -> "ok" [] c = " no cover " -> "no cover" [] c = "  " -> ""
    [] OTHER -> c

\* The decision the request in slot r has staged.
Decision(r) == (CHOOSE u \in sess'[r].lv : TRUE).vals

\* C23: both leave transitions record who decided and when.  An approve or
\* reject that goes ahead records the administrator who issued it and the
\* time of the request, a rejection records the non-empty comment supplied,
\* and after its successful commit the request carries exactly that.
C23_DecisionRecordsWhoAndWhen ==
  [][/\ \A r \in Requests, u \in Admins, l \in LeaveIds, c \in Comments :
          /\ (approve_leave(r, u, l, c) /\ sess'[r].pc = "commit")
             => /\ Decision(r).status = "Approved"
                /\ Decision(r).approved_by = u
                /\ Decision(r).approved_at = ops + 1
          /\ (reject_leave(r, u, l, c) /\ sess'[r].pc = "commit")
             => /\ Decision(r).status = "Rejected"
                /\ Decision(r).approved_by = u
                /\ Decision(r).approved_at = ops + 1
                /\ Decision(r).admin_comment = Trimmed(c)
                /\ Decision(r).admin_comment # ""
     /\ \A r \in Requests :
          (sess[r].op \in {"approve", "reject"} /\ Finishes(r, sess[r].op)
             /\ resp'[r].kind = "ok")
          => \A u \in sess[r].lv :
                /\ leave'[u.id].status = u.vals.status
                /\ leave'[u.id].approved_by = u.vals.approved_by
                /\ leave'[u.id].approved_by \in Admins
                /\ leave'[u.id].approved_at = u.vals.approved_at
                /\ leave'[u.id].approved_at > 0
                /\ leave'[u.id].admin_comment = u.vals.admin_comment
    ]_vars

\* C23 witness: administrator admin2 has rejected the request with the
\* comment " no cover "; the request names admin2, a time and "no cover".
C23_Witness ==
  \E r \in Requests : \E l \in LeaveIds :
     /\ resp[r].op = "reject" /\ resp[r].kind = "ok"
     /\ leave[l].status = "Rejected"
     /\ leave[l].approved_by = "admin2"
     /\ leave[l].approved_at > 0
     /\ leave[l].admin_comment = "no cover"

\* ------------------------------------------------- the expansion loop
\* max(0, end_date - start_date + 1)
Iterations(lr) ==
  IF lr.start_date <= lr.end_date THEN lr.end_date - lr.start_date + 1 ELSE 0

\* C24: the expansion loop of a leave approval terminates for every leave
\* request.  It visits start_date, start_date + 1, ... in ascending order
\* and performs exactly max(0, end_date - start_date + 1) iterations, each
\* overwriting or adding the record of its date; for a request whose
\* start_date is after its end_date it writes no Attendance record, while
\* the request still becomes Approved and one Notification is created.
C24_ExpansionLoopBounded ==
  [][/\ \A r \in Requests, u \in Admins, l \in LeaveIds, c \in Comments :
          (approve_leave(r, u, l, c) /\ leave[l].status = "Pending")
          => LET lr == leave[l]
                 days == LeaveDays(lr.start_date, lr.end_date)
                 s == sess'[r]
             IN /\ Len(days) = Iterations(lr)
                /\ \A i \in 1..Len(days) : days[i] = lr.start_date + i - 1
                /\ \A i \in 1..Len(s.ins) :
                      /\ s.ins[i].date \in lr.start_date..lr.end_date
                      /\ \A j \in 1..(i - 1) : s.ins[j].date < s.ins[i].date
                /\ \A x \in s.upd : x.vals.date \in lr.start_date..lr.end_date
                /\ Len(s.ins) + Cardinality(s.upd) <= Iterations(lr)
                /\ Cardinality({a \in AttendanceAfter(s) :
                        a.status = "Leave" /\ InRange(a, lr)}) = Iterations(lr)
                /\ s.pc = "commit" /\ Len(s.notes) = 1
                /\ \A x \in s.lv : x.vals.status = "Approved"
     /\ \A r \in Requests :
          (/\ Finishes(r, "approve") /\ resp'[r].kind = "ok"
           /\ leave[LeaveOf(r)].start_date > leave[LeaveOf(r)].end_date)
          => /\ UNCHANGED attendance
             /\ leave'[LeaveOf(r)].status = "Approved"
             /\ Len(notifications') = Len(notifications) + 1
    ]_vars

\* C24 witness: a request whose start_date is after its end_date has been
\* approved: one Notification, and no record was written (the stored ones
\* are as they were, none of them Leave).
C24_Witness ==
  \E r \in Requests : \E l \in LeaveIds :
     /\ resp[r].op = "approve" /\ resp[r].kind = "ok"
     /\ leave[l].status = "Approved"
     /\ leave[l].start_date > leave[l].end_date
     /\ Len(notifications) = 1
     /\ attendance \in SeedTables /\ attendance # {}

\* C25: rejecting a leave request, whether the rejection goes through or is
\* refused, never creates, modifies or deletes an Attendance record: the
\* handler stages no Attendance write and neither its return nor its commit
\* changes the table.
C25_RejectLeavesAttendance ==
  [][/\ \A r \in Requests, u \in Admins, l \in LeaveIds, c \in Comments :
          reject_leave(r, u, l, c)
          => /\ sess'[r].ins = <<>> /\ sess'[r].upd = {} /\ sess'[r].del = {}
             /\ UNCHANGED <<attendance, next_att_id>>
     /\ \A r \in Requests :
          Finishes(r, "reject") => UNCHANGED <<attendance, next_att_id>>
    ]_vars

\* C25 witness: the request was rejected and a second rejection of it was
\* refused, with the employee's records of the requested days stored and
\* untouched.
C25_Witness ==
  \E r \in Requests : \E l \in LeaveIds :
     /\ resp[r].op = "reject" /\ resp[r].kind = "refused"
     /\ leave[l].status = "Rejected"
     /\ attendance \in SeedTables
     /\ \E a \in attendance : InRange(a, leave[l])

\* ------------------------------------------------ payroll edit frame
\* The identity and period of every record of a Payroll table.
PayrollKeys(rows) == {<<p.id, p.employee_id, p.month, p.year>> : p \in rows}

\* C26: editing a Payroll record never changes its employee, month or year
\* and adds or removes no Payroll record: the handler stages no new record
\* and no write of those columns, its commit leaves the records' identities
\* and periods as they were, and no period ends with two records.
C26_EditKeepsPayrollKeys ==
  [][/\ \A r \in Requests, id \in 1..2, f \in EditForms :
          edit_payroll(r, id, f)
          => /\ sess'[r].pay = <<>>
             /\ \A u \in sess'[r].pay_upd :
                   /\ u.id = id
                   /\ u.cols \cap {"id", "employee_id", "month", "year"} = {}
             /\ UNCHANGED payroll
     /\ \A r \in Requests :
          Finishes(r, "edit_payroll")
          => /\ PayrollKeys(payroll') = PayrollKeys(payroll)
             /\ Cardinality(payroll') = Cardinality(payroll)
     /\ \A p \in payroll' : \A q \in payroll' :
          (p.employee_id = q.employee_id /\ p.month = q.month /\ p.year = q.year)
          => p.id = q.id
    ]_vars

\* C26 witness: the record of employee 1 for June 2024 has been edited (a
\* new basic salary, a modification time) and is still the only record, for
\* the same employee and period.
C26_Witness ==
  \E r \in Requests :
     /\ resp[r].op = "edit_payroll" /\ resp[r].kind = "ok"
     /\ Cardinality(payroll) = 1
     /\ \E p \in payroll :
          /\ p.id = 1 /\ p.employee_id = 1 /\ p.month = 6 /\ p.year = 2024
          /\ p.basic_salary = 12000 /\ p.updated_at > 0

\* ------------------------------------------------ bulk mark, run twice
\* The last request to complete was a successful bulk mark sent with this
\* date, status and department, and nothing has been written since: it was
\* served on the first slot and no other request has run beside or after it.
JustRan(date_str, status, department) ==
  /\ resp["r1"].op = "bulk" /\ resp["r1"].kind = "ok"
  /\ resp["r1"].args = <<date_str, status, department>>
  /\ resp["r2"] = NoResp
  /\ \A r \in Requests : sess[r] = Idle

\* C27: bulk mark is idempotent.  Run a second time with the same date,
\* status and department and no other write in between, it creates no
\* record, reports a count of 0 and leaves every Attendance record as the
\* first run left it.
C27_BulkIdempotent ==
  [][/\ \A r \in Requests, d \in DateStrs, st \in {"Present", "Absent"},
          dept \in Departments :
          (JustRan(d, st, dept) /\ mark_bulk_attendance(r, d, st, dept))
          => /\ sess'[r].ins = <<>> /\ sess'[r].upd = {} /\ sess'[r].del = {}
             /\ sess'[r].saved = 0
             /\ sess'[r].args = resp[r].args
             /\ UNCHANGED attendance
     /\ \A r \in Requests :
          (/\ Finishes(r, "bulk") /\ resp'[r].kind = "ok"
           /\ resp[r].op = "bulk" /\ resp[r].kind = "ok"
           /\ resp[r].args = sess[r].args /\ resp["r2"] = NoResp)
          => resp'[r].saved = 0 /\ UNCHANGED <<attendance, next_att_id>>
    ]_vars

\* C27 witness: a bulk mark has run twice; the second run reported 0 and the
\* record the first run created for employee 2 is stored as it was created.
C27_Witness ==
  /\ ops = 2
  /\ resp["r1"].op = "bulk" /\ resp["r1"].kind = "ok" /\ resp["r1"].saved = 0
  /\ resp["r2"] = NoResp
  /\ \A r \in Requests : sess[r] = Idle
  /\ \E a \in attendance :
        /\ a.employee_id = 2
        /\ DateStr(a.date) = resp["r1"].args[1]
        /\ a.status = resp["r1"].args[2]
        /\ a.remarks = "Bulk attendance marked by admin" /\ a.updated_at = 0

\* ------------------------------------- one employee twice in a payload
\* C28: a batch save whose payload lists the same employee_id in two rows,
\* when no record exists beforehand for that employee and date, ends with
\* exactly one Attendance record for that employee and date carrying the
\* later row's status and remarks; the first row is counted in saved and
\* the second in updated.
C28_RepeatedRowOverwritesFirst ==
  [][/\ \A r \in Requests, rows \in Sheets :
          (/\ save_hr_attendance(r, DateStr(1), rows) /\ sess'[r].pc = "commit"
           /\ Len(rows) = 2 /\ rows[1].employee_id = rows[2].employee_id
           /\ ~Found(rows[1].employee_id, 1))
          => LET s == sess'[r] IN
             /\ s.saved = 1 /\ s.updated = 1
             /\ Len(s.ins) = 1 /\ s.upd = {} /\ s.del = {}
             /\ s.ins[1].employee_id = rows[2].employee_id
             /\ s.ins[1].date = 1
             /\ s.ins[1].status = rows[2].status
             /\ s.ins[1].remarks = Strip(rows[2].remarks)
     /\ \A r \in Requests :
          (/\ Finishes(r, "save") /\ resp'[r].kind = "ok"
           /\ sess[r].saved = 1 /\ sess[r].updated = 1 /\ sess[r].upd = {})
          => LET row == sess[r].ins[1]
                 same == {a \in attendance' : a.employee_id = row.employee_id
                                               /\ a.date = row.date}
             IN /\ Cardinality(same) = 1
                /\ \A a \in same : a.status = row.status /\ a.remarks = row.remarks
                /\ resp'[r].saved = 1 /\ resp'[r].updated = 1
    ]_vars

\* C28 witness: a batch listing employee 2 twice, first Half-day with remarks
\* 'late' and then Leave with empty remarks, succeeded with one record
\* created and one row counted as an update; employee 2 has the one record,
\* on Leave with empty remarks.
C28_Witness ==
  \E r \in Requests :
     /\ resp[r].op = "save" /\ resp[r].kind = "ok"
     /\ resp[r].saved = 1 /\ resp[r].updated = 1
     /\ Cardinality({a \in attendance : a.employee_id = 2 /\ a.date = 1}) = 1
     /\ \E a \in attendance :
           /\ a.employee_id = 2 /\ a.date = 1
           /\ a.status = "Leave" /\ a.remarks = "" /\ a.updated_at > 0
     /\ ops = 1

====
